---- MODULE Spec2Model ----
(***************************************************************************)
(* Model of mrhash/apps/utils/tum_reader.py: the TUMReader dataset loader. *)
(*                                                                         *)
(* Representation.                                                         *)
(*  - A text file is a sequence of lines; a line is the sequence of its    *)
(*    whitespace-separated tokens (what line.split() returns).  A line     *)
(*    that starts with '#' has a first token of kind "hash".               *)
(*  - A token is a record [kind, val].  kind = "num" is a decimal literal  *)
(*    that float() accepts, val its value in units of 1/50 (0.02): the     *)
(*    timestamps used are 0.00, 0.02 and 0.04, for which float64           *)
(*    subtraction is exact, so the comparison with the literal 0.02 is     *)
(*    the comparison of val with 1.  kind = "path" is a relative file      *)
(*    name, kind = "word" any other non-numeric text; float() raises       *)
(*    ValueError on both.  The literals nan and inf are not drawn.         *)
(*  - Python sequences are 0-based; the sequences here are 1-based, so     *)
(*    Python's lst[k] is lst[k + 1] below.                                 *)
(*  - The three list files are taken to exist (lines 38-42 choose the      *)
(*    pose file by name; its content is pose_txt).                         *)
(***************************************************************************)
EXTENDS Integers, Sequences, FiniteSets, TLC

VARIABLES
    rgb_txt,        \* lines of <data_dir>/rgb.txt
    depth_txt,      \* lines of <data_dir>/depth.txt
    pose_txt,       \* lines of the pose list file
    status,         \* "unconstructed", "ok", or the exception __init__ raised
    rgb_images,     \* self.rgb_images
    depth_images,   \* self.depth_images
    poses,          \* self.poses
    quats,          \* self.quats
    file_index,     \* self.file_index
    ret,            \* outcome of the most recent call on the reader
    yielded,        \* tuples __next__ returned since the cursor was last reset
    prev_pass       \* what the pass before the last __iter__ had returned

vars == <<rgb_txt, depth_txt, pose_txt, status, rgb_images, depth_images,
          poses, quats, file_index, ret, yielded, prev_pass>>

files == <<rgb_txt, depth_txt, pose_txt>>
reader == <<status, rgb_images, depth_images, poses, quats>>

(***************************************************************************)
(* Bounds of the model and constants of the program.                       *)
(***************************************************************************)
MaxLines == 2            \* at most this many lines in each list file

Threshold == 1           \* the literal 0.02, in units of 0.02
DepthScaling == 5000     \* default of depth_scaling
Float32Exact == 16777216 \* 2^24: every integer up to it is a float32

Timestamps == {0, 1, 2}  \* 0.00, 0.02, 0.04

(***************************************************************************)
(* Tokens and lines.                                                       *)
(***************************************************************************)
Num(v) == [kind |-> "num", val |-> v]
PathTok(stream, k) == [kind |-> "path", val |-> <<stream, k>>]
Word == [kind |-> "word", val |-> 0]
Hash == [kind |-> "hash", val |-> 0]

\* float(tok), or the exception it raises
float(tok) ==
    IF tok.kind = "num"
    THEN [err |-> "none", v |-> tok.val]
    ELSE [err |-> "ValueError", v |-> 0]

\* np.array(..., dtype=np.float32) on one value: round to nearest, ties to
\* even.  Values are in units of 1/50.  Only pose fields are converted, and
\* the pose fields drawn are whole numbers below 2^25, where float32 has
\* spacing 1 up to 2^24 and spacing 2 above (16777217 is stored as 16777216,
\* 16777219 as 16777220); a value that is not whole is not drawn.
float32(v) ==
    LET n == v \div 50
        a == IF n < 0 THEN -n ELSE n
        r == IF a <= Float32Exact \/ a % 2 = 0 THEN a
             ELSE IF ((a - 1) \div 2) % 2 = 0 THEN a - 1 ELSE a + 1
    IN  IF v % 50 # 0 THEN v
        ELSE IF n < 0 THEN -(r * 50) ELSE r * 50

\* data_dir / name, for a relative name
PathJoin(name) == [dir |-> "data_dir", rel |-> name.val]

(***************************************************************************)
(* read_file_list (lines 44-51).                                           *)
(***************************************************************************)
RECURSIVE read_lines(_, _, _)
read_lines(lines, i, file_list) ==
    IF i > Len(lines) THEN [err |-> "none", list |-> file_list]
    ELSE LET parts == lines[i] IN
         IF Len(parts) > 0 /\ parts[1].kind = "hash"
         THEN read_lines(lines, i + 1, file_list)
         ELSE IF Len(parts) = 0
         THEN [err |-> "IndexError", list |-> <<>>]
         ELSE IF float(parts[1]).err # "none"
         THEN [err |-> float(parts[1]).err, list |-> <<>>]
         ELSE read_lines(lines, i + 1,
                  Append(file_list, [ts |-> float(parts[1]).v, data |-> Tail(parts)]))

read_file_list(lines) == read_lines(lines, 1, <<>>)

(***************************************************************************)
(* Nearest-neighbour association (lines 57-78).                            *)
(***************************************************************************)
Abs(x) == IF x < 0 THEN -x ELSE x

\* np.abs(timestamps - rgb_ts)
abs_diff(list, rgb_ts) == [j \in 1..Len(list) |-> Abs(list[j].ts - rgb_ts)]

\* a scan that keeps the last index of the minimum
RECURSIVE argmin_last_scan(_, _, _)
argmin_last_scan(d, j, best) ==
    IF j > Len(d) THEN best
    ELSE argmin_last_scan(d, j + 1, IF d[j] <= d[best] THEN j ELSE best)

argmin_last(d) == argmin_last_scan(d, 2, 1)

RECURSIVE argmin_scan(_, _, _)
argmin_scan(d, j, best) ==
    IF j > Len(d) THEN best
    ELSE argmin_scan(d, j + 1, IF d[j] < d[best] THEN j ELSE best)

\* np.argmin on a non-empty array: the first index of the minimum
argmin(d) == argmin_scan(d, 2, 1)

\* the test written ">= 0.02"
too_far_exclusive(diff) == diff >= Threshold

\* the test "> 0.02" of lines 68 and 72
too_far(diff) == diff > Threshold

RECURSIVE associate(_, _, _, _, _)
associate(rgb_list, depth_list, pose_list, i, matches) ==
    IF i > Len(rgb_list) THEN [err |-> "none", matches |-> matches]
    ELSE
    LET rgb_ts == rgb_list[i].ts
        rgb_data == rgb_list[i].data
        next == associate(rgb_list, depth_list, pose_list, i + 1, matches)
    IN
    IF Len(depth_list) = 0 THEN [err |-> "ValueError", matches |-> <<>>]
    ELSE
    LET d_idx == argmin(abs_diff(depth_list, rgb_ts)) IN
    IF too_far(Abs(depth_list[d_idx].ts - rgb_ts)) THEN next
    ELSE IF Len(pose_list) = 0 THEN [err |-> "ValueError", matches |-> <<>>]
    ELSE
    LET p_idx == argmin(abs_diff(pose_list, rgb_ts)) IN
    IF too_far(Abs(pose_list[p_idx].ts - rgb_ts)) THEN next
    ELSE IF Len(rgb_data) = 0 \/ Len(depth_list[d_idx].data) = 0
    THEN [err |-> "IndexError", matches |-> <<>>]
    ELSE associate(rgb_list, depth_list, pose_list, i + 1,
             Append(matches, [rgb |-> rgb_data[1],
                              depth |-> depth_list[d_idx].data[1],
                              pose |-> pose_list[p_idx].data]))

(***************************************************************************)
(* Pose parsing (lines 83-89): float(p[0]) ... float(p[6]) in this order.  *)
(***************************************************************************)
RECURSIVE parse_fields(_, _, _)
parse_fields(p, k, acc) ==
    IF k > 7 THEN [err |-> "none", v |-> acc]
    ELSE IF k > Len(p) THEN [err |-> "IndexError", v |-> <<>>]
    ELSE IF float(p[k]).err # "none" THEN [err |-> float(p[k]).err, v |-> <<>>]
    ELSE parse_fields(p, k + 1, Append(acc, float32(float(p[k]).v)))

RECURSIVE parse_poses(_, _, _, _)
parse_poses(matches, m, ps, qs) ==
    IF m > Len(matches) THEN [err |-> "none", poses |-> ps, quats |-> qs]
    ELSE LET f == parse_fields(matches[m].pose, 1, <<>>) IN
         IF f.err # "none" THEN [err |-> f.err, poses |-> <<>>, quats |-> <<>>]
         ELSE parse_poses(matches, m + 1,
                  Append(ps, SubSeq(f.v, 1, 3)), Append(qs, SubSeq(f.v, 4, 7)))

(***************************************************************************)
(* load_tum_data (lines 37-91): the four lists, or the exception raised.   *)
(***************************************************************************)
Failed(e) ==
    [err |-> e, rgb_paths |-> <<>>, depth_paths |-> <<>>, poses |-> <<>>, quats |-> <<>>]

load_tum_data(rgb_lines, depth_lines, pose_lines) ==
    LET rgb == read_file_list(rgb_lines) IN
    IF rgb.err # "none" THEN Failed(rgb.err) ELSE
    LET depth == read_file_list(depth_lines) IN
    IF depth.err # "none" THEN Failed(depth.err) ELSE
    LET pose == read_file_list(pose_lines) IN
    IF pose.err # "none" THEN Failed(pose.err) ELSE
    LET a == associate(rgb.list, depth.list, pose.list, 1, <<>>) IN
    IF a.err # "none" THEN Failed(a.err) ELSE
    LET p == parse_poses(a.matches, 1, <<>>, <<>>) IN
    IF p.err # "none" THEN Failed(p.err) ELSE
    [err |-> "none",
     rgb_paths |-> [m \in 1..Len(a.matches) |-> PathJoin(a.matches[m].rgb)],
     depth_paths |-> [m \in 1..Len(a.matches) |-> PathJoin(a.matches[m].depth)],
     poses |-> p.poses,
     quats |-> p.quats]

NoCall == [op |-> "none", arg |-> 0, kind |-> "none", val |-> <<>>]
NoPass == [complete |-> FALSE, items |-> <<>>]

\* TUMReader.__init__ (lines 24-35)
__init__ ==
    /\ status = "unconstructed"
    /\ LET r == load_tum_data(rgb_txt, depth_txt, pose_txt) IN
       /\ status' = IF r.err = "none" THEN "ok" ELSE r.err
       /\ rgb_images' = r.rgb_paths
       /\ depth_images' = r.depth_paths
       /\ poses' = r.poses
       /\ quats' = r.quats
    /\ file_index' = 0
    /\ UNCHANGED <<files, ret, yielded, prev_pass>>

(***************************************************************************)
(* Datasets.                                                               *)
(***************************************************************************)
SeqsUpTo(S, n) == UNION {[1..k -> S] : k \in 0..n}

\* the pose fields of the k-th pose line: tx ty tz qx qy qz qw
PoseFields(k) ==
    <<Num(50 * k), Num(100 * k), Num(50 * (Float32Exact + k)),
      Num(0), Num(0), Num(0), Num(50)>>

\* well-formed lines, the k-th line of a file naming the k-th image
RgbLine(t, k) == <<Num(t), PathTok("rgb", k)>>
DepthLine(t, k) == <<Num(t), PathTok("depth", k)>>
PoseLine(t, k) == <<Num(t)>> \o PoseFields(k)

RgbFile(ts) == [k \in 1..Len(ts) |-> RgbLine(ts[k], k)]
DepthFile(ts) == [k \in 1..Len(ts) |-> DepthLine(ts[k], k)]
PoseFile(ts) == [k \in 1..Len(ts) |-> PoseLine(ts[k], k)]

\* lines a list file may hold besides well-formed ones; far = 2 is out of
\* tolerance of timestamp 0
BadRgbLines(k) ==
    {<<Hash, Word>>, <<>>, <<Word, PathTok("rgb", k)>>,
     <<Num(0)>>, <<Num(2)>>, RgbLine(0, k), RgbLine(2, k)}
BadDepthLines(k) ==
    {<<Hash, Word>>, <<>>, <<Word, PathTok("depth", k)>>,
     <<Num(0)>>, <<Num(2)>>, DepthLine(0, k), DepthLine(2, k)}
BadPoseLines(k) ==
    {<<Hash, Word>>, <<>>, <<Word>> \o PoseFields(k),
     <<Num(0)>> \o SubSeq(PoseFields(k), 1, 6), <<Num(2)>> \o SubSeq(PoseFields(k), 1, 6),
     <<Num(0), Num(50), Word>> \o SubSeq(PoseFields(k), 3, 7),
     <<Num(2), Num(50), Word>> \o SubSeq(PoseFields(k), 3, 7),
     PoseLine(0, k), PoseLine(2, k)}

\* the files of at most Len(choice) lines whose j-th line is in choice[j]
LinesFrom(choice) ==
    UNION {{f \in [1..k -> UNION {choice[j] : j \in 1..k}] : \A j \in 1..k : f[j] \in choice[j]}
           : k \in 0..Len(choice)}

\* every list well formed, timestamps free
WellFormedData ==
    /\ rgb_txt \in {RgbFile(ts) : ts \in SeqsUpTo(Timestamps, MaxLines)}
    /\ depth_txt \in {DepthFile(ts) : ts \in SeqsUpTo(Timestamps, MaxLines)}
    /\ pose_txt \in {PoseFile(ts) : ts \in SeqsUpTo(Timestamps, MaxLines)}

\* one list holds arbitrary lines, the other two a record at timestamp 0
MalformedData ==
    \/ /\ rgb_txt \in LinesFrom([j \in 1..MaxLines |-> BadRgbLines(j)])
       /\ depth_txt = DepthFile(<<0>>)
       /\ pose_txt = PoseFile(<<0>>)
    \/ /\ rgb_txt = RgbFile(<<0>>)
       /\ depth_txt \in LinesFrom([j \in 1..MaxLines |-> BadDepthLines(j)])
       /\ pose_txt = PoseFile(<<0>>)
    \/ /\ rgb_txt = RgbFile(<<0>>)
       /\ depth_txt = DepthFile(<<0>>)
       /\ pose_txt \in LinesFrom([j \in 1..MaxLines |-> BadPoseLines(j)])

Unconstructed ==
    /\ status = "unconstructed"
    /\ rgb_images = <<>>
    /\ depth_images = <<>>
    /\ poses = <<>>
    /\ quats = <<>>
    /\ file_index = 0
    /\ ret = NoCall
    /\ yielded = <<>>
    /\ prev_pass = NoPass

InitLoad == (WellFormedData \/ MalformedData) /\ Unconstructed

NextLoad == __init__

SpecLoad == InitLoad /\ [][NextLoad]_vars

(***************************************************************************)
(* The sequence protocol (lines 93-117).                                   *)
(***************************************************************************)
\* what decoding the two image files of one frame may do: Image.open raises
\* an OSError on a missing or undecodable file
LoadOutcomes == {"ok", "depth_unreadable", "rgb_unreadable"}

\* the integers passed as subscripts
Subscripts == -(MaxLines + 1)..(MaxLines + 1)

\* lst[item] of a Python list: negative subscripts count from the end
py_index(lst, item) == IF item < 0 THEN lst[Len(lst) + item + 1] ELSE lst[item + 1]

\* the tuple self[item] returns when both images decode
Frame(item) ==
    <<item + 1,
      py_index(poses, item),
      py_index(quats, item),
      [file |-> py_index(depth_images, item), div |-> DepthScaling],
      [file |-> py_index(rgb_images, item), mode |-> "RGB"]>>

\* self[item] (lines 107-117): the tuple returned or the exception raised
getitem(item, load) ==
    IF item >= Len(rgb_images)
    THEN [kind |-> "IndexError", val |-> <<>>]
    ELSE IF item < -Len(poses)
    THEN [kind |-> "IndexError", val |-> <<>>]
    ELSE IF load # "ok"
    THEN [kind |-> "OSError", val |-> <<>>]
    ELSE [kind |-> "tuple", val |-> Frame(item)]

\* TUMReader.__len__ (lines 93-94)
__len__ ==
    /\ status = "ok"
    /\ ret' = [op |-> "len", arg |-> 0, kind |-> "int", val |-> <<Len(rgb_images)>>]
    /\ UNCHANGED <<files, reader, file_index, yielded, prev_pass>>

\* __iter__ that returns self without rewinding the cursor
iter_without_rewind ==
    /\ status = "ok"
    /\ ret' = [op |-> "iter", arg |-> 0, kind |-> "self", val |-> <<>>]
    /\ prev_pass' = [complete |-> file_index >= Len(rgb_images), items |-> yielded]
    /\ yielded' = <<>>
    /\ UNCHANGED <<files, reader, file_index>>

\* TUMReader.__iter__ (lines 96-98)
__iter__ ==
    /\ status = "ok"
    /\ file_index' = 0
    /\ ret' = [op |-> "iter", arg |-> 0, kind |-> "self", val |-> <<>>]
    /\ prev_pass' = [complete |-> file_index >= Len(rgb_images), items |-> yielded]
    /\ yielded' = <<>>
    /\ UNCHANGED <<files, reader>>

\* __next__ that advances the cursor before it fetches at the cursor
next_fetch_after_advance ==
    /\ status = "ok"
    /\ IF file_index >= Len(rgb_images)
       THEN /\ ret' = [op |-> "next", arg |-> file_index,
                       kind |-> "StopIteration", val |-> <<>>]
            /\ UNCHANGED <<file_index, yielded>>
       ELSE \E load \in LoadOutcomes :
            LET result == getitem(file_index + 1, load) IN
            /\ ret' = [op |-> "next", arg |-> file_index + 1,
                       kind |-> result.kind, val |-> result.val]
            /\ file_index' = file_index + 1
            /\ yielded' = IF result.kind = "tuple"
                          THEN Append(yielded, result.val) ELSE yielded
    /\ UNCHANGED <<files, reader, prev_pass>>

\* __next__ that advances the cursor before it fetches the frame it was at
next_advance_before_fetch ==
    /\ status = "ok"
    /\ IF file_index >= Len(rgb_images)
       THEN /\ ret' = [op |-> "next", arg |-> file_index,
                       kind |-> "StopIteration", val |-> <<>>]
            /\ UNCHANGED <<file_index, yielded>>
       ELSE \E load \in LoadOutcomes :
            LET result == getitem(file_index, load) IN
            /\ ret' = [op |-> "next", arg |-> file_index,
                       kind |-> result.kind, val |-> result.val]
            /\ file_index' = file_index + 1
            /\ yielded' = IF result.kind = "tuple"
                          THEN Append(yielded, result.val) ELSE yielded
    /\ UNCHANGED <<files, reader, prev_pass>>

\* __next__ that pops the frame it returns off the four lists
next_consuming ==
    /\ status = "ok"
    /\ IF Len(rgb_images) = 0
       THEN /\ ret' = [op |-> "next", arg |-> file_index,
                       kind |-> "StopIteration", val |-> <<>>]
            /\ UNCHANGED <<rgb_images, depth_images, poses, quats, yielded>>
       ELSE \E load \in LoadOutcomes :
            LET result == getitem(0, load) IN
            /\ ret' = [op |-> "next", arg |-> file_index,
                       kind |-> result.kind, val |-> result.val]
            /\ IF result.kind = "tuple"
               THEN /\ rgb_images' = Tail(rgb_images)
                    /\ depth_images' = Tail(depth_images)
                    /\ poses' = Tail(poses)
                    /\ quats' = Tail(quats)
                    /\ yielded' = Append(yielded, result.val)
               ELSE UNCHANGED <<rgb_images, depth_images, poses, quats, yielded>>
    /\ UNCHANGED <<files, status, file_index, prev_pass>>

\* TUMReader.__next__ (lines 100-105)
__next__ ==
    /\ status = "ok"
    /\ IF file_index >= Len(rgb_images)
       THEN /\ ret' = [op |-> "next", arg |-> file_index,
                       kind |-> "StopIteration", val |-> <<>>]
            /\ UNCHANGED <<file_index, yielded>>
       ELSE \E load \in LoadOutcomes :
            LET result == getitem(file_index, load) IN
            /\ ret' = [op |-> "next", arg |-> file_index,
                       kind |-> result.kind, val |-> result.val]
            /\ IF result.kind = "tuple"
               THEN /\ file_index' = file_index + 1
                    /\ yielded' = Append(yielded, result.val)
               ELSE UNCHANGED <<file_index, yielded>>
    /\ UNCHANGED <<files, reader, prev_pass>>

\* TUMReader.__getitem__ (lines 107-117), called by the user
__getitem__ ==
    /\ status = "ok"
    /\ \E item \in Subscripts, load \in LoadOutcomes :
           LET result == getitem(item, load) IN
           ret' = [op |-> "get", arg |-> item, kind |-> result.kind, val |-> result.val]
    /\ UNCHANGED <<files, reader, file_index, yielded, prev_pass>>

\* datasets for the sequence protocol: any color list, one or two depth and
\* pose records
ReaderData ==
    /\ rgb_txt \in {RgbFile(ts) : ts \in SeqsUpTo(Timestamps, MaxLines)}
    /\ depth_txt \in {DepthFile(<<0>>), DepthFile(<<0, 2>>)}
    /\ pose_txt \in {PoseFile(<<0>>), PoseFile(<<2, 0>>)}

Init == ReaderData /\ Unconstructed

Next == __init__ \/ __len__ \/ __iter__ \/ __next__ \/ __getitem__

Spec == Init /\ [][Next]_vars

(***************************************************************************)
(* What the claims speak of, stated over the files rather than computed    *)
(* by the scan.                                                            *)
(***************************************************************************)
RgbList == read_file_list(rgb_txt).list
DepthList == read_file_list(depth_txt).list
PoseList == read_file_list(pose_txt).list

Range(f) == {f[x] : x \in DOMAIN f}

IsCommentLine(line) == Len(line) > 0 /\ line[1].kind = "hash"

\* a color or depth line with a numeric timestamp and a path token
CompleteImageLine(line) ==
    Len(line) >= 2 /\ line[1].kind = "num" /\ line[2].kind = "path"

\* a pose line with a numeric timestamp and 7 numeric fields
CompletePoseLine(line) ==
    Len(line) >= 8 /\ \A k \in 1..8 : line[k].kind = "num"

AllRecordsComplete ==
    /\ \A line \in Range(rgb_txt) : IsCommentLine(line) \/ CompleteImageLine(line)
    /\ \A line \in Range(depth_txt) : IsCommentLine(line) \/ CompleteImageLine(line)
    /\ \A line \in Range(pose_txt) : IsCommentLine(line) \/ CompletePoseLine(line)

\* some record of the list lies within the tolerance of t
Near(list, t) == \E j \in 1..Len(list) : Abs(list[j].ts - t) <= Threshold

HasPartners(r) == Near(DepthList, r.ts) /\ Near(PoseList, r.ts)

\* the smallest timestamp difference of a non-empty list to t
MinDiff(list, t) ==
    CHOOSE d \in Range(abs_diff(list, t)) : \A e \in Range(abs_diff(list, t)) : d <= e

\* the records of the list at the smallest difference to t
Nearest(list, t) == {j \in 1..Len(list) : Abs(list[j].ts - t) = MinDiff(list, t)}

\* the first of them in list order
FirstNearest(list, t) ==
    CHOOSE j \in Nearest(list, t) : \A k \in Nearest(list, t) : j <= k

\* the color record behind the m-th match (the color paths are distinct)
SourceOf(m) ==
    CHOOSE i \in 1..Len(RgbList) :
        Len(RgbList[i].data) > 0 /\ PathJoin(RgbList[i].data[1]) = rgb_images[m]

Emitted(i) ==
    /\ Len(RgbList[i].data) > 0
    /\ \E m \in 1..Len(rgb_images) : rgb_images[m] = PathJoin(RgbList[i].data[1])

\* the 32-bit pose fields from..to of a pose record
StoredFields(rec, from, to) ==
    [k \in 1..(to - from + 1) |-> float32(rec.data[from + k - 1].val)]

Constructed == status # "unconstructed"

(***************************************************************************)
(* Claims about construction, checked under SpecLoad.                      *)
(***************************************************************************)

\* C2: for every triple of parsed lists, an empty depth or pose list
\* included, construction succeeds, length() is the number of color records
\* with a depth and a pose record within the tolerance, and the matches are
\* in color-list order.
C2_LengthCountsPartnered ==
    (Constructed /\ AllRecordsComplete) =>
        /\ status = "ok"
        /\ Len(rgb_images) = Cardinality({i \in 1..Len(RgbList) : HasPartners(RgbList[i])})
        /\ LET kept == SelectSeq(RgbList, HasPartners) IN
           rgb_images = [m \in 1..Len(kept) |-> PathJoin(kept[m].data[1])]

\* C3: in every emitted match the depth partner is the first depth record,
\* in list order, among those at the minimum timestamp difference to the
\* color timestamp, and the pose partner is the first such pose record,
\* whichever depth record was chosen.
C3_FirstNearestPartner ==
    status = "ok" =>
        \A m \in 1..Len(rgb_images) :
            LET t == RgbList[SourceOf(m)].ts
                d == DepthList[FirstNearest(DepthList, t)]
                p == PoseList[FirstNearest(PoseList, t)]
            IN  /\ depth_images[m] = PathJoin(d.data[1])
                /\ poses[m] = StoredFields(p, 1, 3)
                /\ quats[m] = StoredFields(p, 4, 7)

\* a match whose color timestamp has two depth records and two pose records
\* tied for the minimum
C3_Witness ==
    /\ status = "ok"
    /\ \E m \in 1..Len(rgb_images) :
           LET t == RgbList[SourceOf(m)].ts IN
           /\ Cardinality(Nearest(DepthList, t)) >= 2
           /\ Cardinality(Nearest(PoseList, t)) >= 2

\* C4: the tolerance is inclusive.  A color record whose nearest depth and
\* nearest pose record are both exactly 0.02 away is emitted (and with
\* complete records construction succeeds); a color record whose nearest
\* depth or nearest pose record is more than 0.02 away yields no entry.
C4_InclusiveTolerance ==
    Constructed =>
        \A i \in 1..Len(RgbList) :
            LET t == RgbList[i].ts
                atEdge == /\ DepthList # <<>> /\ MinDiff(DepthList, t) = Threshold
                          /\ PoseList # <<>> /\ MinDiff(PoseList, t) = Threshold
                beyond == \/ DepthList # <<>> /\ MinDiff(DepthList, t) > Threshold
                          \/ PoseList # <<>> /\ MinDiff(PoseList, t) > Threshold
            IN  /\ (atEdge /\ AllRecordsComplete) => status = "ok"
                /\ (atEdge /\ status = "ok") => Emitted(i)
                /\ beyond => ~Emitted(i)

\* a match with both partners exactly at the tolerance, next to a discarded
\* color record
C4_Witness ==
    /\ status = "ok"
    /\ \E i \in 1..Len(RgbList) :
           /\ MinDiff(DepthList, RgbList[i].ts) = Threshold
           /\ MinDiff(PoseList, RgbList[i].ts) = Threshold
           /\ Emitted(i)
    /\ \E i \in 1..Len(RgbList) :
           /\ MinDiff(DepthList, RgbList[i].ts) > Threshold
           /\ ~Emitted(i)

\* C6: construction fails with a parsing error whenever any non-comment
\* line of the color, depth or pose list lacks a numeric first token, a path
\* token (color, depth) or one of the 7 numeric fields (pose), also when
\* the line's record is selected into no match.
C6_AnyMalformedLineFails ==
    (Constructed /\ ~AllRecordsComplete) => status \in {"ValueError", "IndexError"}

(***************************************************************************)
(* Claims about the sequence protocol, checked under Spec.                 *)
(***************************************************************************)
Length == Len(rgb_images)

\* get(0), ..., get(Length - 1) as returned when the images decode
AllFrames == [k \in 1..Length |-> Frame(k - 1)]

\* the pose record paired with the m-th match
PosePartner(m) == PoseList[FirstNearest(PoseList, RgbList[SourceOf(m)].ts)]

\* C1: get(index) with index >= length() or index < 0 fails with an
\* index-out-of-range error and returns no tuple.
C1_OutOfRangeRaises ==
    (ret.op = "get" /\ (ret.arg >= Length \/ ret.arg < 0)) => ret.kind = "IndexError"

\* C5: by the time next() signals end-of-sequence the pass has yielded
\* exactly get(0), ..., get(N-1) in this order, and a full pass made before
\* the last iter() had yielded the same tuples.
C5_FullPassesAgree ==
    (ret.op = "next" /\ ret.kind = "StopIteration") =>
        /\ yielded = AllFrames
        /\ prev_pass.complete => prev_pass.items = yielded

\* the second of two full passes over at least two matches has ended
C5_Witness ==
    /\ ret.op = "next" /\ ret.kind = "StopIteration"
    /\ Length >= 2
    /\ prev_pass.complete
    /\ Len(prev_pass.items) = Length

\* C7: once the reader is constructed no call changes the match list:
\* length(), the color and depth paths, the translations and the
\* orientations stay what construction made them.
C7_MatchesImmutable ==
    [][status = "ok" =>
          /\ status' = "ok"
          /\ Len(rgb_images') = Len(rgb_images)
          /\ UNCHANGED <<rgb_images, depth_images, poses, quats>>]_vars

\* a non-empty reader after a full pass, a restart and a further tuple
C7_Witness ==
    /\ status = "ok"
    /\ Length >= 1
    /\ prev_pass.complete
    /\ ret.op = "next" /\ ret.kind = "tuple"

\* C8: get(i) for 0 <= i < length() returns a tuple with first component
\* i + 1 and the translation and orientation parsed from the pose partner of
\* the i-th match; every tuple that get or iteration returns has a first
\* component in 1..length().
C8_OneBasedIndex ==
    /\ (ret.op = "get" /\ ret.kind = "tuple" /\ ret.arg \in 0..(Length - 1)) =>
           /\ ret.val[1] = ret.arg + 1
           /\ ret.val[2] = StoredFields(PosePartner(ret.arg + 1), 1, 3)
           /\ ret.val[3] = StoredFields(PosePartner(ret.arg + 1), 4, 7)
    /\ ret.kind = "tuple" => ret.val[1] \in 1..Length

\* C9: a next() that raises while loading the frame leaves the cursor where
\* it was, so the following next() fetches the same index; the cursor moves,
\* by exactly one, only on a next() that returns a tuple; next() always
\* fetches the frame at the cursor.
C9_CursorMovesOnSuccessOnly ==
    [][ret'.op = "next" =>
          /\ ret'.arg = file_index
          /\ IF ret'.kind = "tuple"
             THEN file_index' = file_index + 1
             ELSE file_index' = file_index]_vars

\* a next() failed on an image in the middle of a pass
C9_Witness ==
    /\ ret.op = "next" /\ ret.kind = "OSError"
    /\ file_index = ret.arg
    /\ file_index >= 1
    /\ Len(yielded) = file_index

\* C10: the reader has one cursor, always within 0..length(); iter() sets
\* it to 0 also in the middle of a pass, so that the next tuple yielded is
\* get(0); get(i) leaves it alone; after next() has signalled
\* end-of-sequence every next() signals it again until iter() is called.
C10_SingleCursor ==
    /\ [](file_index \in 0..Length)
    /\ [][/\ ret'.op = "iter" => file_index' = 0
          /\ ret'.op = "get" => file_index' = file_index
          /\ (yielded = <<>> /\ ret'.op = "next" /\ ret'.kind = "tuple") =>
                 ret'.arg = 0 /\ ret'.val = Frame(0)
          /\ (ret.op = "next" /\ ret.kind = "StopIteration" /\ ret'.op = "next") =>
                 ret'.kind = "StopIteration"]_vars

\* iter() was called in the middle of a pass and the next tuple was get(0)
C10_Witness ==
    /\ ret.op = "next" /\ ret.kind = "tuple" /\ ret.arg = 0
    /\ ~prev_pass.complete
    /\ Len(prev_pass.items) >= 1
    /\ Length >= 2

====
